---------------------------- MODULE Spec2Model ----------------------------
(***************************************************************************)
(* Model of the two front-ends of python_dashboards:                       *)
(*   - env_sensor_dashboard.py: generate_environmental_data, the module-   *)
(*     level dataset df and the Dash callback update_dashboard;            *)
(*   - simple_python_gui.py: EnvironmentalDataGUI (toggle_data,            *)
(*     populate_table, button_flash and the Tk timer callbacks).           *)
(*                                                                         *)
(* Numbers are fixed point: every reading is an integer count of           *)
(* hundredths (28.5 is 2850), the seasonal factor a count of 1/10000.      *)
(* Three specifications share the variables:                               *)
(*   Spec     the dashboard process: the generation loop, then any         *)
(*            sequence of dropdown selections;                             *)
(*   RowSpec  one iteration of the generation loop body, for every         *)
(*            location and every day index 0..99;                          *)
(*   GuiSpec  the desktop viewer: clicks and timer callbacks.              *)
(***************************************************************************)
EXTENDS Integers, Sequences, FiniteSets

VARIABLES
    \* ---- env_sensor_dashboard.py
    pc,                  \* "generate" | "serving" | "row" | "row_done" | "gui"
    gen_loc,             \* index into locations of the outer loop (line 71)
    gen_i,               \* day index i of the inner loop (line 74)
    all_data,            \* list of data_point dicts (line 31)
    df,                  \* module-level DataFrame (line 101)
    selected_location,   \* value of 'location-dropdown' of the last call
    filtered_df,         \* local of the last update_dashboard call
    show_all_locations,  \* local of the last update_dashboard call
    outputs,             \* the eight values the last call returned
    error,               \* exception raised by the last call, or "none"
    \* ---- simple_python_gui.py
    current_data,        \* self.current_data
    showing_alternate,   \* self.showing_alternate
    tree,                \* rows held by the Treeview, in order
    toggle_button,       \* [text, bg, activebackground, relief]
    status_label,        \* text of self.status_label
    after_flash,         \* pending root.after(100, self.button_flash) callbacks
    after_restore,       \* pending root.after(150, lambda) callbacks: the captured original_relief
    clicks               \* number of toggle_data calls so far

dash_vars == <<pc, gen_loc, gen_i, all_data, df, selected_location, filtered_df,
               show_all_locations, outputs, error>>
gui_vars == <<current_data, showing_alternate, tree, toggle_button, status_label,
              after_flash, after_restore, clicks>>
vars == <<pc, gen_loc, gen_i, all_data, df, selected_location, filtered_df,
          show_all_locations, outputs, error, current_data, showing_alternate,
          tree, toggle_button, status_label, after_flash, after_restore, clicks>>

-----------------------------------------------------------------------------
(* Bounds of the model *)

\* Days generated per location in Spec (the source generates DaysTotal).
NumDays == 2

\* Clicks on the toggle button in GuiSpec.
MaxClicks == 6

\* Program constant: range(100) of the timestamps list.
DaysTotal == 100

-----------------------------------------------------------------------------
(* generate_environmental_data *)

locations == <<"Amazon Rainforest", "Great Barrier Reef", "Siberian Tundra">>

LocationSet == {locations[k] : k \in 1..Len(locations)}

\* Parameter ranges in hundredths, species lists as sequences.
location_params ==
    [loc \in LocationSet |->
       CASE loc = "Amazon Rainforest" ->
              [temperature |-> <<2200, 3500>>, salinity |-> <<0, 50>>,
               dissolved_oxygen |-> <<600, 900>>, ph |-> <<600, 750>>,
               turbidity |-> <<1000, 5000>>, nitrate |-> <<500, 2500>>,
               phosphate |-> <<100, 800>>, chlorophyll |-> <<1500, 4500>>,
               organism |-> <<"Jaguar", "Toucan", "Anaconda", "Poison Dart Frog", "Sloth">>]
         [] loc = "Great Barrier Reef" ->
              [temperature |-> <<2000, 3000>>, salinity |-> <<3400, 3700>>,
               dissolved_oxygen |-> <<700, 1000>>, ph |-> <<780, 830>>,
               turbidity |-> <<100, 1500>>, nitrate |-> <<50, 500>>,
               phosphate |-> <<10, 200>>, chlorophyll |-> <<50, 500>>,
               organism |-> <<"Clownfish", "Sea Turtle", "Coral", "Whale Shark", "Manta Ray">>]
         [] loc = "Siberian Tundra" ->
              [temperature |-> <<-2500, 500>>, salinity |-> <<0, 100>>,
               dissolved_oxygen |-> <<1000, 1400>>, ph |-> <<650, 800>>,
               turbidity |-> <<200, 2000>>, nitrate |-> <<100, 1500>>,
               phosphate |-> <<50, 500>>, chlorophyll |-> <<100, 1000>>,
               organism |-> <<"Siberian Tiger", "Arctic Fox", "Reindeer", "Snowy Owl", "Polar Bear">>]]

\* datetime.now() - timedelta(days=99), taken as the origin of the day count.
start_date == 0

\* timestamps[i] for the day index i (0-based, as enumerate gives it).
timestamps(n) == [k \in 1..n |-> start_date + (k - 1)]

\* np.sin(2 * np.pi * i / 365) * 0.3 + 1 in units of 1/10000, i in 0..100.
SeasonTable ==
    << 10000, 10052, 10103, 10155, 10206, 10258, 10309, 10361, 10412, 10463,
       10514, 10565, 10615, 10666, 10716, 10766, 10816, 10865, 10915, 10964,
       11013, 11061, 11109, 11157, 11204, 11252, 11298, 11345, 11391, 11436,
       11481, 11526, 11570, 11614, 11657, 11700, 11742, 11784, 11825, 11866,
       11906, 11946, 11985, 12023, 12061, 12098, 12135, 12171, 12206, 12241,
       12275, 12308, 12341, 12373, 12404, 12435, 12464, 12494, 12522, 12549,
       12576, 12602, 12628, 12652, 12676, 12699, 12721, 12742, 12763, 12783,
       12802, 12820, 12837, 12853, 12869, 12883, 12897, 12910, 12922, 12934,
       12944, 12953, 12962, 12970, 12977, 12983, 12988, 12992, 12995, 12998,
       12999, 13000, 13000, 12999, 12997, 12994, 12990, 12985, 12980, 12973,
       12966 >>

season_factor(i) == SeasonTable[i + 1]

\* round(): n/d to the nearest integer, ties to even (\div floors, % is in 0..d-1).
RoundHalfEven(n, d) ==
    LET q == n \div d
        r == n % d
    IN  IF 2 * r < d THEN q
        ELSE IF 2 * r > d THEN q + 1
        ELSE IF q % 2 = 0 THEN q ELSE q + 1

\* round(x, 1) and round(x, 2) of a value in hundredths, result in hundredths.
Round1(x) == 10 * RoundHalfEven(x, 10)
Round2(x) == x

\* random.uniform(a, b) = a + (b - a) * random(), the draw f in percent of the span.
uniform(range, f) == range[1] + ((range[2] - range[1]) * f) \div 100

\* round(random.uniform(*params["temperature"]) * season_factor, 1), in hundredths.
temperature_of(range, f, i) ==
    10 * RoundHalfEven(uniform(range, f) * season_factor(i), 100000)

\* random.choice(seq): the draw k is the index chosen.
choice(seq, k) == seq[k]

\* One source of randomness per call of the random module, in call order.
DrawFields == {"temperature", "salinity", "dissolved_oxygen", "ph", "turbidity",
               "nitrate", "phosphate", "chlorophyll"}

\* The draws of one loop iteration: eight fractions and the species index.
SameDraw(f, k) == [frac |-> [x \in DrawFields |-> f], organism |-> k]

\* Every combination of extreme draws, and the all-midpoint draw.
RowDraws ==
    { [frac |-> fr, organism |-> k] : fr \in [DrawFields -> {0, 100}], k \in 1..5 }
    \cup { SameDraw(50, k) : k \in 1..5 }

\* The draws explored when whole datasets are built.
DatasetDraws == { SameDraw(0, 1), SameDraw(100, 5) }

\* Variant of data_point: the species list is always read from the first location.
data_point_first_species(location, i, timestamp, u) ==
    LET params == location_params[location]
    IN  [Timestamp        |-> timestamp,
         Location         |-> location,
         Temperature      |-> temperature_of(params.temperature, u.frac["temperature"], i),
         Salinity         |-> Round2(uniform(params.salinity, u.frac["salinity"])),
         DissolvedOxygen  |-> Round1(uniform(params.dissolved_oxygen, u.frac["dissolved_oxygen"])),
         pH               |-> Round2(uniform(params.ph, u.frac["ph"])),
         Turbidity        |-> Round1(uniform(params.turbidity, u.frac["turbidity"])),
         Nitrate          |-> Round1(uniform(params.nitrate, u.frac["nitrate"])),
         Phosphate        |-> Round2(uniform(params.phosphate, u.frac["phosphate"])),
         Chlorophyll      |-> Round1(uniform(params.chlorophyll, u.frac["chlorophyll"])),
         OrganismPresence |-> choice(location_params[locations[1]].organism, u.organism)]

\* Lines 78-90: the dict of one reading.
data_point(location, i, timestamp, u) ==
    LET params == location_params[location]
    IN  [Timestamp        |-> timestamp,
         Location         |-> location,
         Temperature      |-> temperature_of(params.temperature, u.frac["temperature"], i),
         Salinity         |-> Round2(uniform(params.salinity, u.frac["salinity"])),
         DissolvedOxygen  |-> Round1(uniform(params.dissolved_oxygen, u.frac["dissolved_oxygen"])),
         pH               |-> Round2(uniform(params.ph, u.frac["ph"])),
         Turbidity        |-> Round1(uniform(params.turbidity, u.frac["turbidity"])),
         Nitrate          |-> Round1(uniform(params.nitrate, u.frac["nitrate"])),
         Phosphate        |-> Round2(uniform(params.phosphate, u.frac["phosphate"])),
         Chlorophyll      |-> Round1(uniform(params.chlorophyll, u.frac["chlorophyll"])),
         OrganismPresence |-> choice(params.organism, u.organism)]

\* Lexicographic order of the location names, as sort_values compares them.
LocationRank(loc) ==
    CASE loc = "Amazon Rainforest" -> 1
      [] loc = "Great Barrier Reef" -> 2
      [] loc = "Siberian Tundra" -> 3

\* Variant of SortKeyLeq: sort_values(['Timestamp']) alone.
SortKeyLeq_timestamp_only(a, b) == a.Timestamp <= b.Timestamp

\* Row a sorts no later than row b under the keys ['Location', 'Timestamp'].
SortKeyLeq(a, b) ==
    \/ LocationRank(a.Location) < LocationRank(b.Location)
    \/ /\ a.Location = b.Location
       /\ a.Timestamp <= b.Timestamp

RECURSIVE InsertSorted(_, _)
InsertSorted(s, r) ==
    IF s = <<>> THEN <<r>>
    ELSE IF SortKeyLeq(s[Len(s)], r) THEN Append(s, r)
    ELSE Append(InsertSorted(SubSeq(s, 1, Len(s) - 1), r), s[Len(s)])

\* df.sort_values(['Location', 'Timestamp']).reset_index(drop=True): a stable sort.
RECURSIVE sort_values(_)
sort_values(s) ==
    IF s = <<>> THEN <<>>
    ELSE InsertSorted(sort_values(SubSeq(s, 1, Len(s) - 1)), s[Len(s)])

\* The body of the inner loop (lines 74-92) at the current loop position, the list
\* of timestamps holding n days.
loop_body(n, u) ==
    Append(all_data, data_point(locations[gen_loc], gen_i, timestamps(n)[gen_i + 1], u))

-----------------------------------------------------------------------------
(* update_dashboard *)

\* The values the dropdown can deliver: its four options, and None once cleared
\* (dcc.Dropdown is clearable unless told otherwise), written "None".
Selections == {"All"} \cup LocationSet \cup {"None"}

color_map ==
    [loc \in LocationSet |->
       CASE loc = "Amazon Rainforest" -> "#27ae60"
         [] loc = "Great Barrier Reef" -> "#3498db"
         [] loc = "Siberian Tundra" -> "#95a5a6"]

\* color_map.get(selected_location, '#34495e')
color_map_get(sel) == IF sel \in DOMAIN color_map THEN color_map[sel] ELSE "#34495e"

\* df[df['Location'] == loc]
rows_of(d, loc) == SelectSeq(d, LAMBDA r : r.Location = loc)

\* Variant of filter_rows: the mask is never applied.
filter_rows_unfiltered(d, sel) == d

\* Lines 217-222: the filtered frame of a selection.
filter_rows(d, sel) == IF sel = "All" THEN d ELSE rows_of(d, sel)

\* Lines 217-222: the rendering mode of a selection.
show_all_of(sel) == sel = "All"

column(d, col) == [k \in 1..Len(d) |-> d[k][col]]

\* Series.unique(): the distinct values in order of first appearance.
RECURSIVE unique(_)
unique(s) ==
    IF s = <<>> THEN <<>>
    ELSE LET u == unique(SubSeq(s, 1, Len(s) - 1))
         IN  IF \E k \in 1..Len(u) : u[k] = s[Len(s)] THEN u ELSE Append(u, s[Len(s)])

\* groupby('Location') keys: the distinct locations in sorted order.
group_keys(d) ==
    SelectSeq(locations, LAMBDA loc : \E k \in 1..Len(d) : d[k].Location = loc)

RECURSIVE sum(_)
sum(s) == IF s = <<>> THEN 0 ELSE s[1] + sum(Tail(s))

\* Series.mean(): NaN for an empty series.
mean(s) == IF s = <<>> THEN <<"nan">> ELSE <<sum(s) \div Len(s)>>

\* Lines 235-251: px.line, one trace per location (color='Location') or one trace.
create_time_series_plot(fdf, show_all, sel, y_column, title) ==
    [kind   |-> "line",
     title  |-> title,
     color  |-> IF show_all THEN "Location" ELSE "none",
     traces |-> IF show_all
                THEN [k \in 1..Len(unique(column(fdf, "Location"))) |->
                        LET loc == unique(column(fdf, "Location"))[k]
                        IN  [name |-> loc, line |-> color_map[loc],
                             x |-> column(rows_of(fdf, loc), "Timestamp"),
                             y |-> column(rows_of(fdf, loc), y_column)]]
                ELSE << [name |-> "", line |-> color_map_get(sel),
                         x |-> column(fdf, "Timestamp"),
                         y |-> column(fdf, y_column)] >>]

\* Lines 273-306: the nutrient bar chart.
nutrient_chart(fdf, show_all, sel) ==
    IF show_all
    THEN [kind |-> "bar", barmode |-> "group", color |-> "Nutrient", by |-> "Location",
          title |-> "Average Nutrient Levels by Location",
          bars |-> [k \in 1..Len(group_keys(fdf)) |->
                      LET loc == group_keys(fdf)[k]
                      IN  [name |-> loc,
                           nitrate |-> mean(column(rows_of(fdf, loc), "Nitrate")),
                           phosphate |-> mean(column(rows_of(fdf, loc), "Phosphate"))]]]
    ELSE [kind |-> "bar", barmode |-> "none", color |-> "none", by |-> "none",
          title |-> "Average Nutrient Levels - selection",
          bars |-> << [name |-> sel,
                       nitrate |-> mean(column(fdf, "Nitrate")),
                       phosphate |-> mean(column(fdf, "Phosphate"))] >>]

\* Variant of chlorophyll_chart: the pie is drawn in both modes.
chlorophyll_chart_always_pie(fdf, show_all, sel) ==
    [kind |-> "pie", by |-> "Location",
     title |-> "Chlorophyll Distribution by Location",
     data |-> [k \in 1..Len(group_keys(fdf)) |->
                 LET loc == group_keys(fdf)[k]
                 IN  [name |-> loc, color |-> color_map[loc],
                      values |-> <<sum(column(rows_of(fdf, loc), "Chlorophyll"))>>]]]

\* Lines 312-332: the chlorophyll distribution chart.
chlorophyll_chart(fdf, show_all, sel) ==
    IF show_all
    THEN [kind |-> "pie", by |-> "Location",
          title |-> "Chlorophyll Distribution by Location",
          data |-> [k \in 1..Len(group_keys(fdf)) |->
                      LET loc == group_keys(fdf)[k]
                      IN  [name |-> loc, color |-> color_map[loc],
                           values |-> <<sum(column(rows_of(fdf, loc), "Chlorophyll"))>>]]]
    ELSE [kind |-> "histogram", by |-> "none",
          title |-> "Chlorophyll Distribution - selection",
          data |-> << [name |-> sel, color |-> color_map_get(sel),
                       values |-> column(fdf, "Chlorophyll")] >>]

\* Variant of iloc_last: iloc[0].
iloc_first(s) == s[1]

\* Series.iloc[-1]: the last element; an empty series raises IndexError.
iloc_last_raises(s) == s = <<>>
iloc_last(s) == s[Len(s)]

\* Lines 338-355: does building the organism indicator raise?
organism_raises(d, fdf, show_all) ==
    IF show_all
    THEN \E k \in 1..Len(unique(column(d, "Location"))) :
            iloc_last_raises(column(rows_of(d, unique(column(d, "Location"))[k]),
                                    "OrganismPresence"))
    ELSE iloc_last_raises(column(fdf, "OrganismPresence"))

\* Lines 338-355: the organism indicator.
organism_indicator(d, fdf, show_all, sel) ==
    IF show_all
    THEN [kind |-> "list", heading |-> "Most Recent Organism Sightings:",
          items |-> [k \in 1..Len(unique(column(d, "Location"))) |->
                       LET loc == unique(column(d, "Location"))[k]
                       IN  <<loc, iloc_last(column(rows_of(d, loc), "OrganismPresence"))>>]]
    ELSE [kind |-> "single", heading |-> "Most Recent Organism Sighting in selection:",
          items |-> << <<sel, iloc_last(column(fdf, "OrganismPresence"))>> >>]

\* Lines 254-267 and 357-358: the tuple update_dashboard returns.
render(d, fdf, show_all, sel) ==
    [temperature |-> create_time_series_plot(fdf, show_all, sel, "Temperature", "Temperature Over Time"),
     salinity    |-> create_time_series_plot(fdf, show_all, sel, "Salinity", "Salinity Over Time"),
     oxygen      |-> create_time_series_plot(fdf, show_all, sel, "DissolvedOxygen", "Dissolved Oxygen Over Time"),
     ph          |-> create_time_series_plot(fdf, show_all, sel, "pH", "pH Over Time"),
     turbidity   |-> create_time_series_plot(fdf, show_all, sel, "Turbidity", "Turbidity Over Time"),
     nutrient    |-> nutrient_chart(fdf, show_all, sel),
     chlorophyll |-> chlorophyll_chart(fdf, show_all, sel),
     organism    |-> organism_indicator(d, fdf, show_all, sel)]

-----------------------------------------------------------------------------
(* EnvironmentalDataGUI *)

\* generate_primary_data (the degree sign of the source written "deg").
primary_data ==
    << <<"Amazon Rainforest", "28.5 degC", "0.1 PSU", "7.2 mg/L", "6.8", "25 NTU", "Jaguar">>,
       <<"Great Barrier Reef", "26.2 degC", "35.5 PSU", "8.1 mg/L", "8.1", "5 NTU", "Clownfish">>,
       <<"Siberian Tundra", "-12.8 degC", "0.3 PSU", "12.5 mg/L", "7.4", "8 NTU", "Arctic Fox">> >>

\* generate_alternate_data
alternate_data ==
    << <<"Amazon Rainforest", "31.2 degC", "0.2 PSU", "6.8 mg/L", "6.5", "32 NTU", "Toucan">>,
       <<"Great Barrier Reef", "24.8 degC", "36.1 PSU", "7.9 mg/L", "8.2", "3 NTU", "Sea Turtle">>,
       <<"Siberian Tundra", "-18.5 degC", "0.4 PSU", "13.2 mg/L", "7.1", "12 NTU", "Snowy Owl">> >>

\* Lines 184-185: delete every child the Treeview holds.
RECURSIVE delete_children(_)
delete_children(t) == IF t = <<>> THEN <<>> ELSE delete_children(Tail(t))

\* Lines 188-189: insert every row of the data at the end.
RECURSIVE insert_rows(_, _)
insert_rows(t, data) ==
    IF data = <<>> THEN t ELSE insert_rows(Append(t, Head(data)), Tail(data))

\* Lines 192-194: every other row has its first column set to its own value.
restyle(t) ==
    [k \in 1..Len(t) |-> IF (k - 1) % 2 = 0 THEN [t[k] EXCEPT ![1] = t[k][1]] ELSE t[k]]

\* Variant of populate_table: the rows already shown are not deleted.
populate_table_no_clear(t, data) == restyle(insert_rows(t, data))

\* Lines 179-194: clear, insert, restyle.
populate_table(t, data) == restyle(insert_rows(delete_children(t), data))

\* The view state of the window.
View ==
    [current_data |-> current_data, showing_alternate |-> showing_alternate,
     tree |-> tree, toggle_button |-> toggle_button, status_label |-> status_label]

\* Variant of toggled: the switch to the alternate data leaves the flag unset.
toggled_flag_stuck(v) ==
    IF v.showing_alternate
    THEN [current_data      |-> primary_data,
          toggle_button     |-> [v.toggle_button EXCEPT !.text = "Show Alternative Data",
                                                        !.bg = "#3498db",
                                                        !.activebackground = "#2980b9"],
          status_label      |-> "Ready | Showing Primary Data Set",
          showing_alternate |-> FALSE,
          tree              |-> populate_table(v.tree, primary_data)]
    ELSE [current_data      |-> alternate_data,
          toggle_button     |-> [v.toggle_button EXCEPT !.text = "Show Primary Data",
                                                        !.bg = "#e67e22",
                                                        !.activebackground = "#d35400"],
          status_label      |-> "Ready | Showing Alternative Data Set",
          showing_alternate |-> v.showing_alternate,
          tree              |-> populate_table(v.tree, alternate_data)]

\* Variant of toggled: the switch back to the primary data leaves the status line.
toggled_stale_status(v) ==
    IF v.showing_alternate
    THEN [current_data      |-> primary_data,
          toggle_button     |-> [v.toggle_button EXCEPT !.text = "Show Alternative Data",
                                                        !.bg = "#3498db",
                                                        !.activebackground = "#2980b9"],
          status_label      |-> v.status_label,
          showing_alternate |-> FALSE,
          tree              |-> populate_table(v.tree, primary_data)]
    ELSE [current_data      |-> alternate_data,
          toggle_button     |-> [v.toggle_button EXCEPT !.text = "Show Primary Data",
                                                        !.bg = "#e67e22",
                                                        !.activebackground = "#d35400"],
          status_label      |-> "Ready | Showing Alternative Data Set",
          showing_alternate |-> TRUE,
          tree              |-> populate_table(v.tree, alternate_data)]

\* Lines 200-222 of toggle_data, as a function of the view state (the pictograph
\* that leads each button text is left out).
toggled(v) ==
    IF v.showing_alternate
    THEN [current_data      |-> primary_data,
          toggle_button     |-> [v.toggle_button EXCEPT !.text = "Show Alternative Data",
                                                        !.bg = "#3498db",
                                                        !.activebackground = "#2980b9"],
          status_label      |-> "Ready | Showing Primary Data Set",
          showing_alternate |-> FALSE,
          tree              |-> populate_table(v.tree, primary_data)]
    ELSE [current_data      |-> alternate_data,
          toggle_button     |-> [v.toggle_button EXCEPT !.text = "Show Primary Data",
                                                        !.bg = "#e67e22",
                                                        !.activebackground = "#d35400"],
          status_label      |-> "Ready | Showing Alternative Data Set",
          showing_alternate |-> TRUE,
          tree              |-> populate_table(v.tree, alternate_data)]

\* __init__ and setup_ui: the window as constructed.
Constructed ==
    /\ current_data = primary_data
    /\ showing_alternate = FALSE
    /\ tree = populate_table(<<>>, primary_data)
    /\ toggle_button = [text |-> "Show Alternative Data", bg |-> "#3498db",
                        activebackground |-> "#2980b9", relief |-> "raised"]
    /\ status_label = "Ready | Showing Primary Data Set"
    /\ after_flash = <<>>
    /\ after_restore = <<>>
    /\ clicks = 0

\* The dashboard module before generate_environmental_data has run.
NotGenerated ==
    /\ gen_loc = 1
    /\ gen_i = 0
    /\ all_data = <<>>
    /\ df = <<>>
    /\ selected_location = "All"
    /\ filtered_df = <<>>
    /\ show_all_locations = FALSE
    /\ outputs = <<>>
    /\ error = "none"

-----------------------------------------------------------------------------
(* Spec: the dashboard process *)

Init == pc = "generate" /\ NotGenerated /\ Constructed

\* One iteration of the loops of lines 71-92.
generate_row ==
    /\ pc = "generate"
    /\ gen_loc <= Len(locations)
    /\ \E u \in DatasetDraws : all_data' = loop_body(NumDays, u)
    /\ IF gen_i + 1 < NumDays
       THEN gen_i' = gen_i + 1 /\ gen_loc' = gen_loc
       ELSE gen_i' = 0 /\ gen_loc' = gen_loc + 1
    /\ UNCHANGED <<pc, df, selected_location, filtered_df, show_all_locations,
                   outputs, error>>
    /\ UNCHANGED gui_vars

\* Lines 95-101: the loops are over; build, sort and bind df.
create_dataframe ==
    /\ pc = "generate"
    /\ gen_loc > Len(locations)
    /\ df' = sort_values(all_data)
    /\ pc' = "serving"
    /\ UNCHANGED <<gen_loc, gen_i, all_data, selected_location, filtered_df,
                   show_all_locations, outputs, error>>
    /\ UNCHANGED gui_vars

\* Variant of update_dashboard: the filtered frame is bound to the global df.
update_dashboard_rebinds(sel) ==
    /\ pc = "serving"
    /\ selected_location' = sel
    /\ filtered_df' = filter_rows(df, sel)
    /\ df' = filter_rows(df, sel)
    /\ show_all_locations' = show_all_of(sel)
    /\ IF organism_raises(df, filter_rows(df, sel), show_all_of(sel))
       THEN error' = "IndexError" /\ UNCHANGED outputs
       ELSE /\ error' = "none"
            /\ outputs' = <<render(df, filter_rows(df, sel), show_all_of(sel), sel)>>
    /\ UNCHANGED <<pc, gen_loc, gen_i, all_data>>
    /\ UNCHANGED gui_vars

\* Variant of update_dashboard: the frame filtered by the call before is kept and
\* filtered again.
update_dashboard_sticky(sel) ==
    /\ pc = "serving"
    /\ selected_location' = sel
    /\ filtered_df' = filter_rows(IF filtered_df = <<>> THEN df ELSE filtered_df, sel)
    /\ show_all_locations' = show_all_of(sel)
    /\ IF organism_raises(df, filter_rows(IF filtered_df = <<>> THEN df ELSE filtered_df, sel),
                          show_all_of(sel))
       THEN error' = "IndexError" /\ UNCHANGED outputs
       ELSE /\ error' = "none"
            /\ outputs' = <<render(df, filter_rows(IF filtered_df = <<>> THEN df
                                                    ELSE filtered_df, sel),
                                   show_all_of(sel), sel)>>
    /\ UNCHANGED <<pc, gen_loc, gen_i, all_data, df>>
    /\ UNCHANGED gui_vars

\* Lines 211-358: one run of the callback for the dropdown value sel. A raise
\* leaves what the page shows as it was.
update_dashboard(sel) ==
    /\ pc = "serving"
    /\ selected_location' = sel
    /\ filtered_df' = filter_rows(df, sel)
    /\ show_all_locations' = show_all_of(sel)
    /\ IF organism_raises(df, filter_rows(df, sel), show_all_of(sel))
       THEN error' = "IndexError" /\ UNCHANGED outputs
       ELSE /\ error' = "none"
            /\ outputs' = <<render(df, filter_rows(df, sel), show_all_of(sel), sel)>>
    /\ UNCHANGED <<pc, gen_loc, gen_i, all_data, df>>
    /\ UNCHANGED gui_vars

Next ==
    \/ generate_row
    \/ create_dataframe
    \/ \E sel \in Selections : update_dashboard(sel)

Spec == Init /\ [][Next]_vars

-----------------------------------------------------------------------------
(* RowSpec: the loop body at any location and any day index *)

RowInit ==
    /\ pc = "row"
    /\ gen_loc \in 1..Len(locations)
    /\ gen_i \in 0..(DaysTotal - 1)
    /\ all_data = <<>>
    /\ df = <<>>
    /\ selected_location = "All"
    /\ filtered_df = <<>>
    /\ show_all_locations = FALSE
    /\ outputs = <<>>
    /\ error = "none"
    /\ Constructed

\* Lines 74-92 once, with every draw the sample holds.
generate_one ==
    /\ pc = "row"
    /\ \E u \in RowDraws : all_data' = loop_body(DaysTotal, u)
    /\ pc' = "row_done"
    /\ UNCHANGED <<gen_loc, gen_i, df, selected_location, filtered_df,
                   show_all_locations, outputs, error>>
    /\ UNCHANGED gui_vars

RowNext == generate_one

RowSpec == RowInit /\ [][RowNext]_vars

-----------------------------------------------------------------------------
(* GuiSpec: the desktop viewer *)

GuiInit == pc = "gui" /\ NotGenerated /\ Constructed

\* Variant of toggle_data: button_flash is called in place, not through root.after.
toggle_data_flash_inline ==
    /\ pc = "gui"
    /\ clicks < MaxClicks
    /\ current_data' = toggled(View).current_data
    /\ toggle_button' = [toggled(View).toggle_button EXCEPT !.relief = "sunken"]
    /\ status_label' = toggled(View).status_label
    /\ showing_alternate' = toggled(View).showing_alternate
    /\ tree' = toggled(View).tree
    /\ after_restore' = Append(after_restore, toggle_button.relief)
    /\ clicks' = clicks + 1
    /\ UNCHANGED after_flash
    /\ UNCHANGED dash_vars

\* Lines 196-225: a click on the toggle button.
toggle_data ==
    /\ pc = "gui"
    /\ clicks < MaxClicks
    /\ current_data' = toggled(View).current_data
    /\ toggle_button' = toggled(View).toggle_button
    /\ status_label' = toggled(View).status_label
    /\ showing_alternate' = toggled(View).showing_alternate
    /\ tree' = toggled(View).tree
    /\ after_flash' = Append(after_flash, "button_flash")
    /\ clicks' = clicks + 1
    /\ UNCHANGED after_restore
    /\ UNCHANGED dash_vars

\* Lines 227-233: the timer set by a click fires.
button_flash ==
    /\ pc = "gui"
    /\ after_flash # <<>>
    /\ after_flash' = Tail(after_flash)
    /\ toggle_button' = [toggle_button EXCEPT !.relief = "sunken"]
    /\ after_restore' = Append(after_restore, toggle_button.relief)
    /\ UNCHANGED <<current_data, showing_alternate, tree, status_label, clicks>>
    /\ UNCHANGED dash_vars

\* Line 233: the lambda set by button_flash fires.
restore_relief ==
    /\ pc = "gui"
    /\ after_restore # <<>>
    /\ after_restore' = Tail(after_restore)
    /\ toggle_button' = [toggle_button EXCEPT !.relief = Head(after_restore)]
    /\ UNCHANGED <<current_data, showing_alternate, tree, status_label, clicks,
                   after_flash>>
    /\ UNCHANGED dash_vars

GuiNext == toggle_data \/ button_flash \/ restore_relief

GuiSpec == GuiInit /\ [][GuiNext]_vars

-----------------------------------------------------------------------------
(* Properties of generate_environmental_data *)

InRange(x, range) == range[1] <= x /\ x <= range[2]

\* Every numeric field of the row r lies in the interval declared for its location.
RowInRange(r) ==
    LET params == location_params[r.Location]
    IN  /\ InRange(r.Temperature, params.temperature)
        /\ InRange(r.Salinity, params.salinity)
        /\ InRange(r.DissolvedOxygen, params.dissolved_oxygen)
        /\ InRange(r.pH, params.ph)
        /\ InRange(r.Turbidity, params.turbidity)
        /\ InRange(r.Nitrate, params.nitrate)
        /\ InRange(r.Phosphate, params.phosphate)
        /\ InRange(r.Chlorophyll, params.chlorophyll)

SpeciesOf(loc) ==
    {location_params[loc].organism[k] : k \in 1..Len(location_params[loc].organism)}

\* C1 (as claimed): every row the loop body produces, for every location and every
\* day index 0..99, has each numeric field, the temperature after the seasonal
\* factor included, inside the [min, max] interval of its location.
C1_EveryFieldInRange ==
    pc = "row_done" => \A k \in 1..Len(all_data) : RowInRange(all_data[k])

\* C2: the organism of every generated row is one of the species of the row's own
\* location and of no other location's list.
C2_OrganismOfOwnLocation ==
    pc = "row_done" =>
      \A k \in 1..Len(all_data) :
        /\ all_data[k].Location = locations[gen_loc]
        /\ all_data[k].OrganismPresence \in SpeciesOf(all_data[k].Location)
        /\ \A other \in LocationSet \ {all_data[k].Location} :
              all_data[k].OrganismPresence \notin SpeciesOf(other)

C2_Witness ==
    /\ pc = "row_done"
    /\ gen_i = DaysTotal - 1
    /\ all_data[1].Location = "Great Barrier Reef"
    /\ all_data[1].OrganismPresence = "Manta Ray"

\* Rows of d whose Location is loc, by direct count.
CountOf(d, loc) == Cardinality({k \in 1..Len(d) : d[k].Location = loc})

\* C10: the generated dataset has 3 * NumDays rows, NumDays for each location, one
\* row for each (location, day index) pair, ordered by location name and, within a
\* location, by strictly increasing timestamp (NumDays stands for the 100 days).
C10_DatasetShape ==
    pc = "serving" =>
      /\ Len(df) = Len(locations) * NumDays
      /\ \A loc \in LocationSet : CountOf(df, loc) = NumDays
      /\ \A loc \in LocationSet : \A i \in 0..(NumDays - 1) :
            Cardinality({k \in 1..Len(df) :
                           df[k].Location = loc /\ df[k].Timestamp = start_date + i}) = 1
      /\ \A k \in 1..(Len(df) - 1) :
            \/ LocationRank(df[k].Location) < LocationRank(df[k + 1].Location)
            \/ /\ df[k].Location = df[k + 1].Location
               /\ df[k].Timestamp < df[k + 1].Timestamp

C10_Witness ==
    /\ pc = "serving"
    /\ Len(df) = Len(locations) * NumDays
    /\ df[1].Location = "Amazon Rainforest"
    /\ df[Len(df)].Location = "Siberian Tundra"
    /\ df[1].OrganismPresence = "Sloth"

-----------------------------------------------------------------------------
(* Properties of update_dashboard *)

TimeSeries == {"temperature", "salinity", "oxygen", "ph", "turbidity"}

\* C3: after update_dashboard(L) for a location L, the frame the figures are drawn
\* from holds every row of df whose Location is L, no other row, and as many rows
\* as a direct count of L's rows in df (NumDays, standing for 100).
C3_FilterExact ==
    (pc = "serving" /\ selected_location \in LocationSet) =>
      /\ \A k \in 1..Len(filtered_df) : filtered_df[k].Location = selected_location
      /\ \A k \in 1..Len(df) :
            df[k].Location = selected_location =>
              \E j \in 1..Len(filtered_df) : filtered_df[j] = df[k]
      /\ Len(filtered_df) = CountOf(df, selected_location)
      /\ Len(filtered_df) = NumDays
      /\ error = "none"
      /\ outputs # <<>>
      /\ \A f \in TimeSeries :
            /\ Len(outputs[1][f].traces) = 1
            /\ outputs[1][f].traces[1].x = column(filtered_df, "Timestamp")
      /\ outputs[1].temperature.traces[1].y = column(filtered_df, "Temperature")
      /\ outputs[1].chlorophyll.data[1].values = column(filtered_df, "Chlorophyll")

C3_Witness ==
    /\ pc = "serving"
    /\ selected_location = "Great Barrier Reef"
    /\ Len(filtered_df) = NumDays
    /\ Len(df) = Len(locations) * NumDays
    /\ outputs # <<>>

\* C4: no run of update_dashboard changes df, which stays the frame generation
\* built, and a run with the selection 'All' draws from a frame equal to the whole
\* of df, whatever was selected before.
C4_AllRestoresFullDataset ==
    [][ pc = "serving" =>
          /\ df' = df
          /\ df' = sort_values(all_data')
          /\ selected_location' = "All" =>
                /\ filtered_df' = df
                /\ Len(filtered_df') = Len(locations) * NumDays
                /\ error' = "none"
                /\ outputs' # <<>>
                /\ \A loc \in LocationSet :
                      \E k \in 1..Len(outputs'[1].temperature.traces) :
                        /\ outputs'[1].temperature.traces[k].name = loc
                        /\ Len(outputs'[1].temperature.traces[k].y) = CountOf(df, loc) ]_vars

C4_Witness ==
    /\ pc = "serving"
    /\ selected_location = "All"
    /\ outputs # <<>>
    /\ filtered_df = df
    /\ Len(filtered_df) = Len(locations) * NumDays

\* All four sections of the outputs o are in the grouped-by-location mode.
GroupedMode(o) ==
    /\ \A f \in TimeSeries : o[f].color = "Location"
    /\ o.nutrient.by = "Location"
    /\ o.chlorophyll.kind = "pie" /\ o.chlorophyll.by = "Location"
    /\ o.organism.kind = "list"

\* All four sections of the outputs o are in the single-series mode.
SingleMode(o) ==
    /\ \A f \in TimeSeries : o[f].color = "none" /\ Len(o[f].traces) = 1
    /\ o.nutrient.by = "none" /\ Len(o.nutrient.bars) = 1
    /\ o.chlorophyll.kind = "histogram" /\ o.chlorophyll.by = "none"
    /\ o.organism.kind = "single"

\* C7: whatever update_dashboard returns is wholly in one of the two modes: for
\* 'All' the distribution chart is a pie by location and the other sections are
\* grouped by location, for a single location it is a histogram and the other
\* sections are single-series; no returned tuple mixes the modes, and a run that
\* raises built its figures in the single-series mode.
C7_OneModeInAllSections ==
    (pc = "serving" /\ outputs # <<>>) =>
      /\ GroupedMode(outputs[1]) # SingleMode(outputs[1])
      /\ (error = "none" /\ selected_location = "All") => GroupedMode(outputs[1])
      /\ (error = "none" /\ selected_location # "All") => SingleMode(outputs[1])
      /\ selected_location \in ({"All"} \cup LocationSet) => error = "none"
      /\ error = "IndexError" =>
            /\ ~show_all_locations
            /\ \A f \in TimeSeries :
                  create_time_series_plot(filtered_df, show_all_locations,
                                          selected_location, "pH", f).color = "none"
            /\ nutrient_chart(filtered_df, show_all_locations, selected_location).by = "none"
            /\ chlorophyll_chart(filtered_df, show_all_locations,
                                 selected_location).kind = "histogram"

C7_Witness ==
    /\ pc = "serving"
    /\ selected_location = "Siberian Tundra"
    /\ error = "none"
    /\ outputs # <<>>
    /\ outputs[1].chlorophyll.kind = "histogram"
    /\ outputs[1].organism.kind = "single"

\* C8 (as claimed): a run of update_dashboard whose selection matches no location
\* and is not 'All' returns all eight outputs, in the single-series mode, without
\* raising.
C8_EmptySelectionRenders ==
    (pc = "serving" /\ selected_location \notin ({"All"} \cup LocationSet)) =>
      /\ error = "none"
      /\ outputs # <<>>
      /\ SingleMode(outputs[1])

\* C11: what a run of update_dashboard computes is a function of df and of the
\* selection it is given, and of nothing an earlier run left behind: its frame is
\* the filter of df, it raises or not by the selection alone, what it returns is
\* the rendering of (df, selection), and a second run with the selection of the
\* run before returns the same eight outputs.
C11_PureProjection ==
    [][ pc = "serving" =>
          /\ filtered_df' = filter_rows(df', selected_location')
          /\ show_all_locations' = (selected_location' = "All")
          /\ error' = "none" <=> selected_location' \in ({"All"} \cup LocationSet)
          /\ error' = "none" =>
                outputs' = <<render(df', filtered_df', show_all_locations',
                                    selected_location')>>
          /\ (selected_location' = selected_location /\ error = "none" /\ outputs # <<>>) =>
                (outputs' = outputs /\ error' = "none") ]_vars

C11_Witness ==
    /\ pc = "serving"
    /\ selected_location = "Amazon Rainforest"
    /\ error = "none"
    /\ outputs # <<>>
    /\ outputs[1].organism.items[1][1] = "Amazon Rainforest"
    /\ outputs[1].nutrient.bars[1].name = "Amazon Rainforest"

\* The row of d for the location loc that has the greatest timestamp.
LatestRow(d, loc) ==
    CHOOSE r \in {d[k] : k \in 1..Len(d)} :
      /\ r.Location = loc
      /\ \A k \in 1..Len(d) : d[k].Location = loc => d[k].Timestamp <= r.Timestamp

\* The organism a list of <<location, organism>> items gives for loc.
ListedFor(items, loc) == {items[k][2] : k \in {j \in 1..Len(items) : items[j][1] = loc}}

\* C14: the organism summary gives, for each location it names, the organism of
\* that location's row of greatest timestamp; under 'All' it names every location,
\* and the organism listed for a location L under 'All' is the one shown when L
\* alone is selected.
C14_LatestOrganismAgrees ==
    (pc = "serving" /\ outputs # <<>> /\ error = "none") =>
      LET items == outputs[1].organism.items
      IN  /\ \A k \in 1..Len(items) :
                items[k][2] = LatestRow(df, items[k][1]).OrganismPresence
          /\ selected_location = "All" =>
                /\ Len(items) = Len(locations)
                /\ \A loc \in LocationSet :
                      ListedFor(items, loc) =
                        {organism_indicator(df, filter_rows(df, loc), show_all_of(loc),
                                            loc).items[1][2]}
          /\ selected_location \in LocationSet =>
                /\ Len(items) = 1
                /\ items[1][1] = selected_location
                /\ {items[1][2]} =
                     ListedFor(organism_indicator(df, filter_rows(df, "All"),
                                                  show_all_of("All"), "All").items,
                               selected_location)

C14_Witness ==
    /\ pc = "serving"
    /\ selected_location = "All"
    /\ error = "none"
    /\ outputs # <<>>
    /\ outputs[1].organism.items[2] = <<"Great Barrier Reef", "Manta Ray">>
    /\ df[NumDays + 1].OrganismPresence = "Clownfish"

-----------------------------------------------------------------------------
(* Properties of EnvironmentalDataGUI *)

\* C5: two toggle_data calls in a row give back the table rows, the flag, the
\* status text and the button text they started from; after an even number of
\* clicks the table holds the primary snapshot, after an odd number the alternate.
C5_ToggleTwiceRestores ==
    pc = "gui" =>
      /\ toggled(toggled(View)).tree = tree
      /\ toggled(toggled(View)).showing_alternate = showing_alternate
      /\ toggled(toggled(View)).status_label = status_label
      /\ toggled(toggled(View)).toggle_button.text = toggle_button.text
      /\ toggled(toggled(View)).current_data = current_data
      /\ toggled(View).tree # tree
      /\ clicks % 2 = 0 => tree = primary_data
      /\ clicks % 2 = 1 => tree = alternate_data

C5_Witness ==
    /\ pc = "gui"
    /\ clicks = 2
    /\ tree = primary_data
    /\ showing_alternate = FALSE

\* C6: between callbacks the flag, the snapshot shown, the status line and the
\* button text agree: alternate, 'Showing Alternative Data Set' and 'Show Primary
\* Data' together, or primary, 'Showing Primary Data Set' and 'Show Alternative
\* Data' together.
C6_ViewStateAgrees ==
    pc = "gui" =>
      /\ showing_alternate <=> current_data = alternate_data
      /\ showing_alternate <=> status_label = "Ready | Showing Alternative Data Set"
      /\ showing_alternate <=> toggle_button.text = "Show Primary Data"
      /\ ~showing_alternate <=> current_data = primary_data
      /\ ~showing_alternate <=> status_label = "Ready | Showing Primary Data Set"
      /\ ~showing_alternate <=> toggle_button.text = "Show Alternative Data"

C6_Witness ==
    /\ pc = "gui"
    /\ clicks = 3
    /\ showing_alternate
    /\ current_data = alternate_data
    /\ toggle_button.text = "Show Primary Data"

\* C9 (as claimed): when toggle_data returns no callback is pending, and no later
\* step of the event loop changes a widget.
C9_NothingAfterTheCallback ==
    [][ pc = "gui" =>
          /\ clicks' # clicks => (after_flash' = <<>> /\ after_restore' = <<>>)
          /\ clicks' = clicks =>
                UNCHANGED <<tree, toggle_button, status_label>> ]_vars

\* C9 (amended): the table rows, the status text, the button's text and colours,
\* current_data and showing_alternate change only inside toggle_data; toggle_data
\* leaves the relief alone and one more button_flash callback pending, and the
\* timer callbacks that run later change nothing but the button's relief.
C9_OnlyReliefChangesLater ==
    [][ pc = "gui" =>
          /\ clicks' # clicks =>
                /\ Len(after_flash') = Len(after_flash) + 1
                /\ after_restore' = after_restore
                /\ toggle_button'.relief = toggle_button.relief
          /\ clicks' = clicks =>
                /\ UNCHANGED <<tree, status_label, current_data, showing_alternate>>
                /\ toggle_button' = [toggle_button EXCEPT !.relief = toggle_button'.relief]
                /\ Len(after_flash') + Len(after_restore')
                     <= Len(after_flash) + Len(after_restore) ]_vars

C9_Witness ==
    /\ pc = "gui"
    /\ clicks = 1
    /\ after_flash = <<>>
    /\ after_restore = <<"raised">>
    /\ toggle_button.relief = "sunken"
    /\ showing_alternate

\* C12 (as claimed): once every scheduled button_flash and restore callback has
\* run, the toggle button's relief is 'raised' again, whatever the clicks and
\* their timing were.
C12_ReliefRaisedWhenIdle ==
    (pc = "gui" /\ after_flash = <<>> /\ after_restore = <<>>) =>
      toggle_button.relief = "raised"

\* C13: after construction and after every toggle_data call the table holds the
\* rows of current_data, in order and with their values, and nothing else: three
\* rows, none left over from the other snapshot, none accumulated.
C13_TableIsCurrentData ==
    pc = "gui" =>
      /\ tree = current_data
      /\ Len(tree) = 3
      /\ \A k \in 1..Len(tree) :
            /\ tree[k] = (IF showing_alternate THEN alternate_data ELSE primary_data)[k]
            /\ tree[k] # (IF showing_alternate THEN primary_data ELSE alternate_data)[k]
      /\ \A j, k \in 1..Len(tree) : tree[j] = tree[k] => j = k

C13_Witness ==
    /\ pc = "gui"
    /\ clicks = 5
    /\ tree = alternate_data
    /\ Len(tree) = 3

=============================================================================
